---- MODULE Spec2Model ----
(***************************************************************************)
(* A model of the caddy-placeholder-dump HTTP handler: the Caddyfile       *)
(* parser (caddyfile.go), and Provision, Validate and ServeHTTP            *)
(* (placeholder-dump.go).  Strings are sequences of one-character strings. *)
(* Each request runs ServeHTTP as its own goroutine; the steps that touch  *)
(* shared state (the instance mutex, the file system, the next handler)    *)
(* are separate actions.                                                   *)
(***************************************************************************)
EXTENDS Integers, Sequences, FiniteSets, TLC

\* Number of concurrent requests served by the one handler instance.
NumReqs == 2

Reqs == 1..NumReqs

Nil == "nil"

(***************************************************************************)
(* Strings and the replacer                                                *)
(***************************************************************************)

\* The white space of the model's alphabet (unicode.IsSpace holds of both).
WhiteSpace == {" ", "\n"}

\* The placeholders a template may hold; each is one token of a template.
Placeholders == {"{c}", "{f}"}

RECURSIVE TrimLeft(_)
TrimLeft(s) == IF s # <<>> /\ Head(s) \in WhiteSpace THEN TrimLeft(Tail(s)) ELSE s

RECURSIVE TrimRight(_)
TrimRight(s) ==
    IF s # <<>> /\ s[Len(s)] \in WhiteSpace THEN TrimRight(SubSeq(s, 1, Len(s) - 1)) ELSE s

\* Mutant of TrimSpace: the content is not trimmed at all.
TrimSpaceNone(s) == s

\* Mutant of TrimSpace: only leading white space is removed.
TrimSpaceLeftOnly(s) == TrimLeft(s)

\* strings.TrimSpace: leading and trailing white space removed.
TrimSpace(s) == TrimRight(TrimLeft(s))

\* caddy.Replacer.ReplaceAll(input, empty): every placeholder of the input is
\* replaced by its value in the request's variables, and by `empty` when the
\* value is the empty string; all other text is kept.
RECURSIVE ReplaceAll(_, _, _)
ReplaceAll(input, vars, empty) ==
    IF input = <<>> THEN <<>>
    ELSE LET h == Head(input)
             v == IF h \in Placeholders
                  THEN (IF vars[h] = <<>> THEN empty ELSE vars[h])
                  ELSE <<h>>
         IN  v \o ReplaceAll(Tail(input), vars, empty)

(***************************************************************************)
(* Configuration: the Caddyfile block and the module's fields              *)
(***************************************************************************)

\* new(PlaceholderDump): every field is the zero value.
NewPlaceholderDump ==
    [File |-> <<>>, LoggerSuffix |-> <<>>, Content |-> <<>>, FilePermissions |-> <<>>]

\* The blocks of the placeholder_dump directive the model loads: each block is
\* a sequence of lines, each line the option's name followed by its arguments.
Caddyfiles ==
    { <<>>,
      << <<"content", <<"{c}">> >> >>,
      << <<"file", <<"p">> >> >>,
      << <<"content", <<>> >>, <<"logger_suffix", <<"s">> >> >>,
      << <<"content">> >>,
      << <<"content", <<"{c}">> >>, <<"bogus", <<"x">> >> >>,
      << <<"content", <<"{c}">> >>, <<"logger_suffix", <<"s">> >> >>,
      << <<"content", <<"{c}">> >>, <<"file", <<"p">> >> >>,
      << <<"content", <<" ", "{c}">> >>, <<"file", <<"{f}">> >>,
         <<"logger_suffix", <<"s">> >> >>,
      << <<"content", <<"{c}">> >>, <<"file", <<"{f}">> >>,
         <<"file_permissions", <<"6", "0", "0">> >> >> }

\* UnmarshalCaddyfile: the block's lines in order; [m, err].
RECURSIVE UnmarshalCaddyfile(_, _)
UnmarshalCaddyfile(m, d) ==
    IF d = <<>> THEN [m |-> m, err |-> Nil]
    ELSE LET seg == Head(d)
             opt == seg[1]
         IN  IF opt \notin {"file", "file_permissions", "logger_suffix", "content"}
             THEN [m |-> m, err |-> "unknown option"]
             ELSE IF Len(seg) < 2
             THEN [m |-> m, err |-> "wrong argument count"]
             ELSE UnmarshalCaddyfile(
                    CASE opt = "file" -> [m EXCEPT !.File = seg[2]]
                      [] opt = "file_permissions" -> [m EXCEPT !.FilePermissions = seg[2]]
                      [] opt = "logger_suffix" -> [m EXCEPT !.LoggerSuffix = seg[2]]
                      [] opt = "content" -> [m EXCEPT !.Content = seg[2]],
                    Tail(d))

\* Mutant of ValidateResult: a configuration needs both sinks.
ValidateResultBothSinks(m) ==
    IF m.File = <<>> \/ m.LoggerSuffix = <<>>
    THEN "either file or logger_suffix must be set"
    ELSE IF m.Content = <<>> THEN "content must be set"
    ELSE Nil

\* Validate: the error it returns, Nil for none.
ValidateResult(m) ==
    IF m.File = <<>> /\ m.LoggerSuffix = <<>>
    THEN "either file or logger_suffix must be set"
    ELSE IF m.Content = <<>> THEN "content must be set"
    ELSE Nil

(***************************************************************************)
(* The file system and os.OpenFile                                         *)
(***************************************************************************)

\* The paths the file templates of Caddyfiles resolve to.
Paths == { <<"p">>, <<"q">> }

\* The values a request's variables take.
ContentValues == { <<>>, <<"a">>, <<"b", " ">> }
FileValues == { <<>>, <<"q">> }

\* The file system before the handler runs: p exists (mode 0600), q does not.
InitFs ==
    [p \in Paths |->
        IF p = <<"p">> THEN [exists |-> TRUE, data |-> <<"x", "\n">>, perm |-> 384]
        ELSE [exists |-> FALSE, data |-> <<>>, perm |-> 0]]

\* Mutant of OpenFlags: the file is opened without O_APPEND.
OpenFlagsNoAppend == {"O_WRONLY", "O_CREATE"}

\* The flags ServeHTTP passes to os.OpenFile.
OpenFlags == {"O_APPEND", "O_WRONLY", "O_CREATE"}

\* const filePermissions = 0644
filePermissions == 420

\* The file after a successful open(2) with the flags and the mode.
OpenedFile(f, flags, perm) ==
    IF f.exists
    THEN (IF "O_TRUNC" \in flags THEN [f EXCEPT !.data = <<>>] ELSE f)
    ELSE [exists |-> TRUE, data |-> <<>>, perm |-> perm]

\* write(2) of chunk at offset off: the bytes there are overwritten, the file
\* grows when the chunk passes its end.
WriteAt(data, off, chunk) ==
    SubSeq(data, 1, off) \o chunk \o SubSeq(data, off + Len(chunk) + 1, Len(data))

\* The offset a write on a handle goes to.
WriteOffset(data, off, flags) == IF "O_APPEND" \in flags THEN Len(data) ELSE off

(***************************************************************************)
(* State                                                                   *)
(***************************************************************************)
VARIABLES
    phase,        \* new, parsed, provisioned, serving, failed
    m,            \* the PlaceholderDump's configuration fields
    loadErr,      \* the error that failed the load, Nil for none
    logger,       \* m.logger is set
    mutex,        \* m.mutex: [gen, holder]; gen 0 is the nil pointer, holder 0 unlocked
    fs,           \* the file system
    pc,           \* each request's position in ServeHTTP
    hasRepl,      \* the request's context carries a replacer
    vars,         \* the request's placeholder values
    resolvedContent,
    resolvedFile,
    fopen,        \* the request's file handle f is open
    foff,         \* the handle's offset
    pending,      \* the bytes of WriteString not yet written
    defers,       \* the request's deferred calls, last registered first
    logs,         \* the records the request logged, in order
    nextCalls,    \* how often the request called next.ServeHTTP
    ret,          \* ServeHTTP's result for the request
    opens,        \* how often the request called os.OpenFile
    wrote,        \* the bytes the request wrote to its file
    fileErr,      \* the request's file error: Nil, open, write
    worder        \* the requests that wrote, in the order of their first write

vars_cfg == <<phase, m, loadErr, logger, mutex>>
vars_req == <<pc, hasRepl, vars, resolvedContent, resolvedFile, fopen, foff, pending,
              defers, logs, nextCalls, ret, opens, wrote, fileErr>>
allvars == <<vars_cfg, fs, vars_req, worder>>

Init ==
    /\ phase = "new"
    /\ m = NewPlaceholderDump
    /\ loadErr = Nil
    /\ logger = FALSE
    /\ mutex = [gen |-> 0, holder |-> 0]
    /\ fs = InitFs
    /\ pc = [r \in Reqs |-> "idle"]
    /\ hasRepl = [r \in Reqs |-> FALSE]
    /\ vars = [r \in Reqs |-> [ph \in Placeholders |-> <<>>]]
    /\ resolvedContent = [r \in Reqs |-> <<>>]
    /\ resolvedFile = [r \in Reqs |-> <<>>]
    /\ fopen = [r \in Reqs |-> FALSE]
    /\ foff = [r \in Reqs |-> 0]
    /\ pending = [r \in Reqs |-> <<>>]
    /\ defers = [r \in Reqs |-> <<>>]
    /\ logs = [r \in Reqs |-> <<>>]
    /\ nextCalls = [r \in Reqs |-> 0]
    /\ ret = [r \in Reqs |-> "none"]
    /\ opens = [r \in Reqs |-> 0]
    /\ wrote = [r \in Reqs |-> <<>>]
    /\ fileErr = [r \in Reqs |-> Nil]
    /\ worder = <<>>

(***************************************************************************)
(* Loading the configuration                                               *)
(***************************************************************************)

\* parseCaddyfile: a new module unmarshalled from the directive's block; an
\* error fails the load.
ParseCaddyfile ==
    /\ phase = "new"
    /\ \E d \in Caddyfiles :
          LET res == UnmarshalCaddyfile(NewPlaceholderDump, d)
          IN  /\ m' = res.m
              /\ loadErr' = res.err
              /\ phase' = IF res.err = Nil THEN "parsed" ELSE "failed"
    /\ UNCHANGED <<logger, mutex, fs, vars_req, worder>>

\* Provision: the logger is set, and the mutex created when there is none.
Provision ==
    /\ phase = "parsed"
    /\ logger' = TRUE
    /\ mutex' = IF mutex.gen = 0 THEN [gen |-> mutex.gen + 1, holder |-> 0] ELSE mutex
    /\ phase' = "provisioned"
    /\ UNCHANGED <<m, loadErr, fs, vars_req, worder>>

\* Validate: an error fails the load, and the handler then serves no request.
Validate ==
    /\ phase = "provisioned"
    /\ loadErr' = ValidateResult(m)
    /\ phase' = IF ValidateResult(m) = Nil THEN "serving" ELSE "failed"
    /\ UNCHANGED <<m, logger, mutex, fs, vars_req, worder>>

(***************************************************************************)
(* ServeHTTP                                                               *)
(***************************************************************************)

LogRecord(level, name, msg, content) ==
    [level |-> level, name |-> name, msg |-> msg, content |-> content]

\* Mutant of AfterEmptyContent: the handler returns without calling next.
AfterEmptyContentReturn == "done"

\* Where ServeHTTP goes on empty resolved content: return next.ServeHTTP(w, r).
AfterEmptyContent == "callnext"

\* Mutant of AfterOpenError: the handler returns without calling next.
AfterOpenErrorReturn == "done"

\* Where ServeHTTP goes when os.OpenFile fails: return next.ServeHTTP(w, r).
AfterOpenError == "callnext"

\* Mutant of MutexFree: Lock never waits.
MutexFreeAlways == TRUE

\* m.mutex.Lock() returns only when no other goroutine holds the mutex.
MutexFree == mutex.holder = 0

\* ServeHTTP up to the file sink: the replacer is looked up, the content is
\* resolved and trimmed, empty content is skipped with a warning, the content
\* is logged when logger_suffix is set, and the file path is resolved.
Start(r) ==
    /\ phase = "serving"
    /\ pc[r] = "idle"
    /\ \E ok \in BOOLEAN, c \in ContentValues, f \in FileValues :
          LET vs == [ph \in Placeholders |-> IF ph = "{c}" THEN c ELSE f]
              content == TrimSpace(ReplaceAll(m.Content, vs, <<>>))
              file == ReplaceAll(m.File, vs, <<>>)
          IN  /\ hasRepl' = [hasRepl EXCEPT ![r] = ok]
              /\ IF ~ok
                 THEN /\ ret' = [ret EXCEPT ![r] = "error 500"]
                      /\ pc' = [pc EXCEPT ![r] = "done"]
                      /\ UNCHANGED <<vars, resolvedContent, resolvedFile, logs>>
                 ELSE /\ vars' = [vars EXCEPT ![r] = vs]
                      /\ resolvedContent' = [resolvedContent EXCEPT ![r] = content]
                      /\ ret' = ret
                      /\ IF content = <<>>
                         THEN /\ logs' = [logs EXCEPT ![r] = Append(@,
                                    LogRecord("warn", <<>>,
                                        "Resolved content is empty; skipping processing",
                                        <<>>))]
                              /\ pc' = [pc EXCEPT ![r] = AfterEmptyContent]
                              /\ UNCHANGED resolvedFile
                         ELSE /\ logs' = [logs EXCEPT ![r] =
                                    IF m.LoggerSuffix # <<>>
                                    THEN Append(@, LogRecord("info", m.LoggerSuffix,
                                             "Logging resolved content", content))
                                    ELSE @]
                              /\ resolvedFile' = [resolvedFile EXCEPT ![r] = file]
                              /\ pc' = [pc EXCEPT ![r] =
                                    IF file # <<>> THEN "lock" ELSE "callnext"]
    /\ UNCHANGED <<vars_cfg, fs, fopen, foff, pending, defers, nextCalls, opens,
                   wrote, fileErr, worder>>

\* m.mutex.Lock(); defer m.mutex.Unlock()
Lock(r) ==
    /\ pc[r] = "lock"
    /\ MutexFree
    /\ mutex' = [mutex EXCEPT !.holder = r]
    /\ defers' = [defers EXCEPT ![r] = <<"Unlock">> \o @]
    /\ pc' = [pc EXCEPT ![r] = "open"]
    /\ UNCHANGED <<phase, m, loadErr, logger, fs, hasRepl, vars, resolvedContent,
                   resolvedFile, fopen, foff, pending, logs, nextCalls, ret, opens,
                   wrote, fileErr, worder>>

\* os.OpenFile succeeds: the file is created when absent; defer f.Close().
OpenOk(r) ==
    /\ pc[r] = "open"
    /\ fs[resolvedFile[r]].exists \/ "O_CREATE" \in OpenFlags
    /\ fs' = [fs EXCEPT ![resolvedFile[r]] = OpenedFile(@, OpenFlags, filePermissions)]
    /\ opens' = [opens EXCEPT ![r] = @ + 1]
    /\ fopen' = [fopen EXCEPT ![r] = TRUE]
    /\ foff' = [foff EXCEPT ![r] = 0]
    /\ defers' = [defers EXCEPT ![r] = <<"Close">> \o @]
    /\ pending' = [pending EXCEPT ![r] = resolvedContent[r] \o <<"\n">>]
    /\ pc' = [pc EXCEPT ![r] = "write"]
    /\ UNCHANGED <<vars_cfg, hasRepl, vars, resolvedContent, resolvedFile, logs,
                   nextCalls, ret, wrote, fileErr, worder>>

\* os.OpenFile fails: nothing is opened or created; the error is logged and
\* the request goes on to the next handler.
OpenFail(r) ==
    /\ pc[r] = "open"
    /\ opens' = [opens EXCEPT ![r] = @ + 1]
    /\ fileErr' = [fileErr EXCEPT ![r] = "open"]
    /\ logs' = [logs EXCEPT ![r] =
            Append(@, LogRecord("error", <<>>, "Failed to open file", <<>>))]
    /\ pc' = [pc EXCEPT ![r] = AfterOpenError]
    /\ UNCHANGED <<vars_cfg, fs, hasRepl, vars, resolvedContent, resolvedFile, fopen,
                   foff, pending, defers, nextCalls, ret, wrote, worder>>

\* f.WriteString: the operating system takes the next k bytes; when none is
\* left the write has succeeded and is logged at debug level.
WriteChunk(r) ==
    /\ pc[r] = "write"
    /\ \E k \in 1..Len(pending[r]) :
          LET chunk == SubSeq(pending[r], 1, k)
              rest == SubSeq(pending[r], k + 1, Len(pending[r]))
              p == resolvedFile[r]
              off == WriteOffset(fs[p].data, foff[r], OpenFlags)
          IN  /\ fs' = [fs EXCEPT ![p].data = WriteAt(@, off, chunk)]
              /\ foff' = [foff EXCEPT ![r] = off + k]
              /\ wrote' = [wrote EXCEPT ![r] = @ \o chunk]
              /\ pending' = [pending EXCEPT ![r] = rest]
              /\ worder' = IF wrote[r] = <<>> THEN Append(worder, r) ELSE worder
              /\ IF rest = <<>>
                 THEN /\ logs' = [logs EXCEPT ![r] = Append(@,
                            LogRecord("debug", <<>>, "Wrote content to file",
                                      resolvedContent[r]))]
                      /\ pc' = [pc EXCEPT ![r] = "callnext"]
                 ELSE UNCHANGED <<logs, pc>>
    /\ UNCHANGED <<vars_cfg, hasRepl, vars, resolvedContent, resolvedFile, fopen,
                   defers, nextCalls, ret, opens, fileErr>>

\* f.WriteString fails with bytes still unwritten: the error is logged and
\* the request goes on to the next handler.
WriteFail(r) ==
    /\ pc[r] = "write"
    /\ fileErr' = [fileErr EXCEPT ![r] = "write"]
    /\ logs' = [logs EXCEPT ![r] =
            Append(@, LogRecord("error", <<>>, "Failed to write to file", <<>>))]
    /\ pc' = [pc EXCEPT ![r] = "callnext"]
    /\ UNCHANGED <<vars_cfg, fs, hasRepl, vars, resolvedContent, resolvedFile, fopen,
                   foff, pending, defers, nextCalls, ret, opens, wrote, worder>>

\* return next.ServeHTTP(w, r): the call; the deferred calls have not run.
CallNext(r) ==
    /\ pc[r] = "callnext"
    /\ nextCalls' = [nextCalls EXCEPT ![r] = @ + 1]
    /\ pc' = [pc EXCEPT ![r] = "innext"]
    /\ UNCHANGED <<vars_cfg, fs, hasRepl, vars, resolvedContent, resolvedFile, fopen,
                   foff, pending, defers, logs, ret, opens, wrote, fileErr, worder>>

\* next.ServeHTTP returns (it need not): its result, an error or none, is
\* ServeHTTP's result unchanged, and the deferred calls run next.
NextReturn(r) ==
    /\ pc[r] = "innext"
    /\ ret' = [ret EXCEPT ![r] = "result of next"]
    /\ pc' = [pc EXCEPT ![r] = IF defers[r] = <<>> THEN "done" ELSE "return"]
    /\ UNCHANGED <<vars_cfg, fs, hasRepl, vars, resolvedContent, resolvedFile, fopen,
                   foff, pending, defers, logs, nextCalls, opens, wrote, fileErr, worder>>

\* The deferred calls, last registered first: f.Close(), m.mutex.Unlock().
RunDefer(r) ==
    /\ pc[r] = "return"
    /\ defers[r] # <<>>
    /\ IF Head(defers[r]) = "Close"
       THEN /\ fopen' = [fopen EXCEPT ![r] = FALSE]
            /\ mutex' = mutex
       ELSE /\ mutex' = [mutex EXCEPT !.holder = 0]
            /\ fopen' = fopen
    /\ defers' = [defers EXCEPT ![r] = Tail(@)]
    /\ pc' = [pc EXCEPT ![r] = IF Tail(defers[r]) = <<>> THEN "done" ELSE "return"]
    /\ UNCHANGED <<phase, m, loadErr, logger, fs, hasRepl, vars, resolvedContent,
                   resolvedFile, foff, pending, logs, nextCalls, ret, opens, wrote,
                   fileErr, worder>>

Next ==
    \/ ParseCaddyfile
    \/ Provision
    \/ Validate
    \/ \E r \in Reqs : Start(r)
    \/ \E r \in Reqs : Lock(r)
    \/ \E r \in Reqs : OpenOk(r)
    \/ \E r \in Reqs : OpenFail(r)
    \/ \E r \in Reqs : WriteChunk(r)
    \/ \E r \in Reqs : WriteFail(r)
    \/ \E r \in Reqs : CallNext(r)
    \/ \E r \in Reqs : NextReturn(r)
    \/ \E r \in Reqs : RunDefer(r)

Spec == Init /\ [][Next]_allvars

(***************************************************************************)
(* Definitions the properties share                                        *)
(***************************************************************************)

AllSpace(s) == \A i \in 1..Len(s) : s[i] \in WhiteSpace

IsPrefix(s, t) == Len(s) <= Len(t) /\ SubSeq(t, 1, Len(s)) = s

\* t is s without its leading and trailing white space.
IsTrimOf(t, s) ==
    \E i \in 1..Len(s) : \E j \in i..Len(s) :
        /\ t = SubSeq(s, i, j)
        /\ s[i] \notin WhiteSpace
        /\ s[j] \notin WhiteSpace
        /\ AllSpace(SubSeq(s, 1, i - 1))
        /\ AllSpace(SubSeq(s, j + 1, Len(s)))

\* The request's content template with the request's values put in, untrimmed.
RawContent(r) == ReplaceAll(m.Content, vars[r], <<>>)

\* The line a request writes.
LineOf(r) == resolvedContent[r] \o <<"\n">>

\* The number of the request's log records at a level.
CountLevel(r, level) ==
    Cardinality({i \in 1..Len(logs[r]) : logs[r][i].level = level})

\* The request is past the file sink.
PastFileSink(r) == pc[r] \in {"callnext", "innext", "return", "done"}

\* The request opened its file and wrote the whole line.
WroteAll(r) == PastFileSink(r) /\ opens[r] = 1 /\ fileErr[r] = Nil

\* The bytes written to path p, in the order of the requests' first writes.
RECURSIVE ConcatWrites(_, _)
ConcatWrites(order, p) ==
    IF order = <<>> THEN <<>>
    ELSE (IF resolvedFile[Head(order)] = p THEN wrote[Head(order)] ELSE <<>>)
         \o ConcatWrites(Tail(order), p)

\* The value of a string of octal digits.
RECURSIVE OctalValue(_)
OctalValue(s) ==
    IF s = <<>> THEN 0
    ELSE LET d == CASE s[Len(s)] = "0" -> 0 [] s[Len(s)] = "1" -> 1
                    [] s[Len(s)] = "2" -> 2 [] s[Len(s)] = "3" -> 3
                    [] s[Len(s)] = "4" -> 4 [] s[Len(s)] = "5" -> 5
                    [] s[Len(s)] = "6" -> 6 [] s[Len(s)] = "7" -> 7
         IN  8 * OctalValue(SubSeq(s, 1, Len(s) - 1)) + d

(***************************************************************************)
(* Properties                                                              *)
(***************************************************************************)

\* C1 (as claimed): every finished invocation has called the next handler
\* exactly once and has produced no error of its own, also when the request
\* context carries no replacer.
C1_NeverFailsTheCaller ==
    \A r \in Reqs :
        /\ nextCalls[r] <= 1
        /\ pc[r] = "done" => nextCalls[r] = 1 /\ ret[r] # "error 500"

\* C1 (amended): an invocation whose request context carries a replacer calls
\* the next handler exactly once, whatever resolution, logging and file I/O
\* do, and its result is the next handler's; an invocation without a replacer
\* returns the handler's own error 500 and never calls the next handler.
C1_ContinuesWhenReplacerPresent ==
    \A r \in Reqs :
        /\ nextCalls[r] <= 1
        /\ (pc[r] = "done" /\ hasRepl[r]) =>
              nextCalls[r] = 1 /\ ret[r] = "result of next"
        /\ (pc[r] = "done" /\ ~hasRepl[r]) =>
              nextCalls[r] = 0 /\ ret[r] = "error 500"

\* C1 witness: a request with a replacer whose file could not be opened has
\* finished, the next handler called once and its result returned.
C1_Witness ==
    \E r \in Reqs :
        /\ pc[r] = "done" /\ hasRepl[r] /\ fileErr[r] = "open"
        /\ nextCalls[r] = 1 /\ ret[r] = "result of next"

\* C2: each invocation of the instance that opens its file and writes without
\* error appends exactly its line (the resolved content and a newline); every
\* file holds its earlier contents followed by the invocations' bytes, each
\* invocation's bytes together, in the order the invocations wrote.
C2_AppendsWholeLinesInOrder ==
    phase = "serving" =>
        /\ \A p \in Paths : fs[p].data = InitFs[p].data \o ConcatWrites(worder, p)
        /\ \A r \in Reqs :
              /\ IsPrefix(wrote[r], LineOf(r))
              /\ WroteAll(r) => wrote[r] = LineOf(r) /\ resolvedContent[r] # <<>>
              /\ Cardinality({i \in 1..Len(worder) : worder[i] = r}) <= 1

\* C2 witness: two invocations have appended the lines a and b, in this
\* order, to the existing file p.
C2_Witness ==
    \E a \in Reqs : \E b \in Reqs \ {a} :
        /\ fs[<<"p">>].data = <<"x", "\n", "a", "\n", "b", "\n">>
        /\ worder = <<a, b>>
        /\ pc[a] = "done" /\ WroteAll(a)
        /\ pc[b] = "done" /\ WroteAll(b)

\* C3: Validate fails exactly when content is empty or both file and
\* logger_suffix are empty; a handler that serves has a valid configuration,
\* and ServeHTTP rejects no request that carries a replacer.
C3_ValidateExact ==
    LET bad == m.Content = <<>> \/ (m.File = <<>> /\ m.LoggerSuffix = <<>>)
    IN  /\ phase = "serving" => ~bad /\ loadErr = Nil
        /\ (phase = "failed" /\ loadErr \in {"content must be set",
                "either file or logger_suffix must be set"}) => bad
        /\ (phase = "failed" /\ loadErr \notin {"unknown option",
                "wrong argument count"}) => logger /\ bad
        /\ \A r \in Reqs : (pc[r] # "idle" /\ hasRepl[r]) => ret[r] # "error 500"

\* C3 witness: validation has failed a configuration that has a sink and no
\* content.
C3_Witness ==
    /\ phase = "failed"
    /\ loadErr = "content must be set"
    /\ m.LoggerSuffix # <<>>

\* C4: an invocation whose content resolves to nothing but white space logs
\* one warning and nothing else, never locks the mutex, never opens, creates
\* or writes a file, and calls the next handler.
C4_EmptyContentSkipsSinks ==
    \A r \in Reqs :
        (pc[r] # "idle" /\ hasRepl[r] /\ AllSpace(RawContent(r))) =>
            /\ Len(logs[r]) = 1 /\ logs[r][1].level = "warn"
            /\ opens[r] = 0 /\ wrote[r] = <<>> /\ ~fopen[r]
            /\ defers[r] = <<>> /\ mutex.holder # r
            /\ \A i \in 1..Len(worder) : worder[i] # r
            /\ pc[r] \in {"callnext", "innext", "done"}
            /\ pc[r] = "done" => nextCalls[r] = 1

\* C4 witness: with both sinks configured and a file path that resolves, a
\* request whose content resolves to one blank has finished.
C4_Witness ==
    \E r \in Reqs :
        /\ pc[r] = "done" /\ hasRepl[r]
        /\ RawContent(r) = <<" ">> /\ vars[r]["{f}"] = <<"q">>
        /\ m.File # <<>> /\ m.LoggerSuffix # <<>>

\* The parts of C5 that do not concern the file's contents.
C5_LoggedOnceAndContinues(r) ==
    /\ CountLevel(r, "error") = 1
    /\ CountLevel(r, "debug") = 0
    /\ opens[r] = 1
    /\ PastFileSink(r)
    /\ pc[r] = "done" => nextCalls[r] = 1 /\ ret[r] # "error 500"
    /\ m.LoggerSuffix # <<>> =>
          /\ CountLevel(r, "info") = 1
          /\ logs[r][1] = LogRecord("info", m.LoggerSuffix,
                                    "Logging resolved content", resolvedContent[r])

\* C5 (as claimed): an invocation whose open or write failed has logged one
\* error, has not retried, has left the file as it was, calls the next
\* handler and raises no error; its info record stays.
C5_FailureLeavesFileUnchanged ==
    \A r \in Reqs :
        fileErr[r] # Nil => C5_LoggedOnceAndContinues(r) /\ wrote[r] = <<>>

\* C5 (amended): as claimed, but a failed write may have appended an
\* incomplete part of the line; a failed open has written nothing, and a file
\* that only failed opens were tried on is as it was before.
C5_FailureLoggedOnceAndDropped ==
    /\ \A r \in Reqs :
          fileErr[r] # Nil =>
              /\ C5_LoggedOnceAndContinues(r)
              /\ IsPrefix(wrote[r], LineOf(r)) /\ wrote[r] # LineOf(r)
              /\ fileErr[r] = "open" => wrote[r] = <<>> /\ ~fopen[r]
    /\ \A p \in Paths :
          (\A r \in Reqs : resolvedFile[r] = p => (opens[r] = 0 \/ fileErr[r] = "open"))
              => fs[p] = InitFs[p]

\* C5 witness: with a logger configured, a request whose write failed after
\* part of the line has finished.
C5_Witness ==
    \E r \in Reqs :
        /\ pc[r] = "done" /\ fileErr[r] = "write" /\ wrote[r] # <<>>
        /\ m.LoggerSuffix # <<>>

\* C6: with file and logger_suffix both configured, an invocation with
\* non-empty content logs one info record on the sub-logger whose content is
\* the trimmed resolved content, and the line it writes is that same value
\* followed by a newline.
C6_BothSinksSameContent ==
    \A r \in Reqs :
        (pc[r] # "idle" /\ hasRepl[r] /\ ~AllSpace(RawContent(r))
            /\ m.File # <<>> /\ m.LoggerSuffix # <<>>) =>
            /\ IsTrimOf(resolvedContent[r], RawContent(r))
            /\ CountLevel(r, "info") = 1
            /\ logs[r][1].level = "info"
            /\ logs[r][1].name = m.LoggerSuffix
            /\ logs[r][1].content = resolvedContent[r]
            /\ IsPrefix(wrote[r], logs[r][1].content \o <<"\n">>)
            /\ WroteAll(r) => wrote[r] = logs[r][1].content \o <<"\n">>

\* C6 witness: a request whose content resolves to " b " has logged b and
\* has written the line b.
C6_Witness ==
    \E r \in Reqs :
        /\ pc[r] = "done" /\ WroteAll(r)
        /\ RawContent(r) = <<" ", "b", " ">>
        /\ wrote[r] = <<"b", "\n">>
        /\ logs[r][1].content = <<"b">>
        /\ m.LoggerSuffix # <<>>

\* C7 (as claimed): a file the handler creates has the mode of the configured
\* file_permissions, 0644 when the option is not set; a file that existed
\* keeps its mode.
C7_ConfiguredPermissions ==
    \A p \in Paths :
        fs[p].exists =>
            fs[p].perm = IF InitFs[p].exists THEN InitFs[p].perm
                         ELSE IF m.FilePermissions = <<>> THEN 420
                         ELSE OctalValue(m.FilePermissions)

\* C8 (as claimed): while the next handler runs for an invocation, the
\* invocation holds neither the instance mutex nor an open file.
C8_NothingHeldDuringNext ==
    \A r \in Reqs : pc[r] = "innext" => mutex.holder # r /\ ~fopen[r]

\* C9: at most one invocation has the file open; whoever opens, writes or has
\* the file open holds the mutex; the mutex is the one Provision created; a
\* held mutex has its release registered, and a finished invocation holds
\* neither the mutex nor a file.
C9_WritesSerialized ==
    phase = "serving" =>
        /\ mutex.gen = 1
        /\ Cardinality({r \in Reqs : fopen[r]}) <= 1
        /\ Cardinality({r \in Reqs : pc[r] \in {"open", "write"}}) <= 1
        /\ \A r \in Reqs :
              /\ (fopen[r] \/ pc[r] \in {"open", "write"}) => mutex.holder = r
              /\ mutex.holder = r <=> (\E i \in 1..Len(defers[r]) : defers[r][i] = "Unlock")
              /\ fopen[r] <=> (\E i \in 1..Len(defers[r]) : defers[r][i] = "Close")
              /\ pc[r] = "done" => mutex.holder # r /\ ~fopen[r] /\ defers[r] = <<>>

\* C9 witness: one invocation whose write failed has finished, and another
\* has the file open.
C9_Witness ==
    \E a \in Reqs : \E b \in Reqs \ {a} :
        /\ pc[a] = "done" /\ fileErr[a] = "write"
        /\ fopen[b] /\ pc[b] = "write" /\ mutex.holder = b

\* C10 (as claimed): an invocation never waits on the downstream processing
\* of another request: no invocation waits for the mutex while its holder is
\* in the next handler.
C10_NeverWaitsOnDownstream ==
    \A a \in Reqs : \A b \in Reqs :
        ~(pc[a] = "lock" /\ mutex.holder = b /\ pc[b] = "innext")

====
